---- MODULE Spec2Model ----
(***************************************************************************)
(* Model of src/src/web.rs (MorassWeb): a web of charge-carrying nodes     *)
(* joined by pulse-carrying edges.  make_random_web builds the web, step   *)
(* advances it one tick, inject_node_index adds charge to a node and       *)
(* add_edges_to_random_node grows new edges.                               *)
(*                                                                         *)
(* f64 values are integers counted in 1/Unit that keep MantissaBits        *)
(* significant bits: the result of every addition, subtraction and         *)
(* multiplication is rounded to the nearest such value.  Vectors are       *)
(* functions                                                               *)
(* on 0..len-1 where the code indexes them (nodes, node_temp_charges,      *)
(* node_last_fired) and sequences where only order and length matter       *)
(* (edges).  An Arc<RwLock<Node>> held by an edge is the index of that     *)
(* node in nodes; an Arc<RwLock<Edge>> is told apart by its uid.           *)
(*                                                                         *)
(* pc is where the program is: in make_random_web ("make"), between two    *)
(* calls ("idle"), in the loop of add_edges_to_random_node ("grow"), in    *)
(* a step whose work items run one by one ("step"), or stopped by a panic  *)
(* ("panic").  mk, gr and sp hold the locals of the call that is running.  *)
(***************************************************************************)
EXTENDS Integers, Sequences, FiniteSets, TLC

VARIABLES pc, nodes, edges, node_temp_charges, node_last_fired, pairs,
          op_counter, edges_added_counter, mk, gr, edge_seq, sp

vars == <<pc, nodes, edges, node_temp_charges, node_last_fired, pairs,
          op_counter, edges_added_counter, mk, gr, edge_seq, sp>>

(***************************************************************************)
(* Bounds of the model.                                                    *)
(***************************************************************************)
\* resolution of the fixed-point grid: 1.0 is Unit
Unit == 8
\* largest num_edges passed to make_random_web
MaxEdgesArg == 2
\* largest num_edges passed to make_random_web when the web is only built
MaxBootEdges == 4
\* largest num_edges and max_tries passed to add_edges_to_random_node
MaxGrowArg == 2
\* add_edges_to_random_node is not called once this many edges were added
MaxAdded == 1
\* step is not called once op_counter has reached this value
MaxOps == 4
\* step is not called with a charge beyond MaxCharge, and
\* inject_node_index not with an input that takes the charge above it
MaxChargeUnits == 3
MaxCharge == MaxChargeUnits * Unit
\* the significant bits a charge keeps (an f64 keeps 53)
MantissaBits == 6

(***************************************************************************)
(* Program constants.                                                      *)
(***************************************************************************)
\* make_random_web gives up once tries exceeds this
RetryBudget == 1000
DefaultEdgeHealth == 3
DefaultFireWithin == 5
DefaultEndNodeFireWithin == 3

Min(a, b) == IF a < b THEN a ELSE b
Max(a, b) == IF a > b THEN a ELSE b

\* 2^n
RECURSIVE Pow2(_)
Pow2(n) == IF n = 0 THEN 1 ELSE 2 * Pow2(n - 1)

\* the spacing of the floating-point values around a >= 0: 1 while a fits
\* in MantissaBits bits, and doubling with every further bit
RECURSIVE Ulp(_)
Ulp(a) == IF a < Pow2(MantissaBits) THEN 1 ELSE 2 * Ulp(a \div 2)

\* the floating-point value nearest to v, ties to the even mantissa
Round(v) ==
    LET a == IF v < 0 THEN -v ELSE v
        q == Ulp(a)
        lo == (a \div q) * q
        rem == a - lo
        r == IF 2 * rem < q THEN lo
             ELSE IF 2 * rem > q THEN lo + q
             ELSE IF (a \div q) % 2 = 0 THEN lo ELSE lo + q
    IN IF v < 0 THEN -r ELSE r

\* f64 addition, subtraction and multiplication, in units of 1/Unit
FAdd(x, y) == Round(x + y)
FSub(x, y) == Round(x - y)
FMul(x, y) == Round((x * y) \div Unit)

(***************************************************************************)
(* The random draws of make_random_web and default_edge, from small sets   *)
(* inside the ranges the code draws from.                                  *)
(***************************************************************************)
\* threshold in [0,10), charge in [0,5), cooldown in 1..5,
\* charge_consumption_percentage in [0,20), charge_consumption_fixed in [0,3),
\* decay_percentage in [0,0.05), decay_fixed in [0,0.2)
HotDraw ==
    [threshold |-> Unit, charge |-> 2 * Unit, cooldown |-> 2,
     charge_consumption_percentage |-> Unit, charge_consumption_fixed |-> 0,
     decay_percentage |-> 0, decay_fixed |-> 0]

ColdDraw ==
    [threshold |-> 3 * Unit, charge |-> 0, cooldown |-> 1,
     charge_consumption_percentage |-> 0, charge_consumption_fixed |-> 2 * Unit,
     decay_percentage |-> 0, decay_fixed |-> 0]

NodeDraws == {HotDraw, ColdDraw}

\* a node that decays: the smallest decay_percentage and decay_fixed above 0
\* on the grid, and a consumption that leaves part of the charge
LeakyDraw ==
    [threshold |-> Unit, charge |-> 2 * Unit, cooldown |-> 1,
     charge_consumption_percentage |-> Unit \div 4,
     charge_consumption_fixed |-> 1,
     decay_percentage |-> 1, decay_fixed |-> 1]

\* a node that decays and starts below its threshold
DampDraw ==
    [threshold |-> 3 * Unit, charge |-> Unit, cooldown |-> 1,
     charge_consumption_percentage |-> Unit \div 4,
     charge_consumption_fixed |-> 1,
     decay_percentage |-> 1, decay_fixed |-> 1]

\* out_percentage in [0,1), out_fixed in [0,5)
EdgeDraws ==
    { [out_percentage |-> Unit \div 2, out_fixed |-> Unit],
      [out_percentage |-> 0, out_fixed |-> 0] }

Node(n, d) ==
    [id |-> n + 1,
     threshold |-> d.threshold,
     charge |-> d.charge,
     cooldown |-> d.cooldown,
     cooldown_remaining |-> 0,
     since_last_fire |-> 0,
     charge_consumption_percentage |-> d.charge_consumption_percentage,
     charge_consumption_fixed |-> d.charge_consumption_fixed,
     decay_percentage |-> d.decay_percentage,
     decay_fixed |-> d.decay_fixed]

default_edge(start_node, end_node, d, uid) ==
    [out_percentage |-> d.out_percentage,
     out_fixed |-> d.out_fixed,
     edge_health |-> DefaultEdgeHealth,
     last_fire |-> 0,
     fire_within |-> DefaultFireWithin,
     end_node_fire_within |-> DefaultEndNodeFireWithin,
     start_node |-> start_node,
     end_node |-> end_node,
     uid |-> uid]

NumNodes == Cardinality(DOMAIN nodes)

\* sp when no step is in progress: the pass that is running, each work
\* item's position and locals, the locks held, and the sum of the pulse()
\* results
NoStep == [phase |-> "none", at |-> <<>>, loc |-> <<>>, held |-> {},
           count |-> 0, expect |-> <<>>]

NoGrow == [num_edges |-> 0, max_tries |-> 0, tries |-> 0, prior_total_edges |-> 0,
           arr_count |-> <<>>, available_nodes |-> <<>>]

(***************************************************************************)
(* make_random_web(num_nodes, num_edges).  Init is the state once the      *)
(* nodes, the temporary charges and the empty pair set exist; each         *)
(* DrawPair is one pass of the inner loop that draws a candidate pair.     *)
(* mk holds the call's num_edges, its tries counter and the number i of    *)
(* passes of the outer loop completed; tries is dropped on return, while   *)
(* num_edges and i stay as the record of the call.                         *)
(***************************************************************************)
MakeInit(node_counts, edge_counts, draws) ==
    \E num_nodes \in node_counts, num_edges \in edge_counts :
    \E d \in [0..num_nodes - 1 -> draws] :
        /\ pc = "make"
        /\ nodes = [n \in 0..num_nodes - 1 |-> Node(n, d[n])]
        /\ edges = <<>>
        /\ node_temp_charges = [n \in 0..num_nodes - 1 |-> 0]
        /\ node_last_fired = [n \in 0..num_nodes - 1 |-> 0]
        /\ pairs = {}
        /\ op_counter = 0
        /\ edges_added_counter = 0
        /\ mk = [num_edges |-> num_edges, tries |-> 0, i |-> 0]
        /\ gr = NoGrow
        /\ edge_seq = 0
        /\ sp = NoStep

\* make_random_web(2, 0..MaxEdgesArg)
Init == MakeInit({2}, 0..MaxEdgesArg, NodeDraws)

\* PairIsNew without the test of the reversed pair
PairIsNewOneWay(ret, ps) ==
    /\ ret[1] # ret[2]
    /\ ret \notin ps

\* the test that lets a drawn pair leave the inner loop
PairIsNew(ret, ps) ==
    /\ ret[1] # ret[2]
    /\ ret \notin ps
    /\ <<ret[2], ret[1]>> \notin ps

DrawPair(a, b) ==
    /\ pc = "make"
    /\ mk.i < mk.num_edges
    /\ LET tries == mk.tries + 1 IN
       IF PairIsNew(<<a, b>>, pairs)
       THEN /\ pairs' = pairs \cup {<<a, b>>}
            /\ mk' = [mk EXCEPT !.tries = tries, !.i = mk.i + 1]
            /\ pc' = "make"
       ELSE /\ pairs' = pairs
            /\ IF tries > RetryBudget
               THEN /\ pc' = "idle"
                    /\ mk' = [mk EXCEPT !.tries = 0]
               ELSE /\ pc' = "make"
                    /\ mk' = [mk EXCEPT !.tries = tries]
    /\ UNCHANGED <<sp, nodes, edges, node_temp_charges, node_last_fired,
                   op_counter, edges_added_counter, gr, edge_seq>>

\* the edges built from the pairs, in the order ps lists them
RECURSIVE EdgesOfPairs(_, _, _)
EdgesOfPairs(ps, d, uid) ==
    IF ps = <<>> THEN <<>>
    ELSE <<default_edge(Head(ps)[1], Head(ps)[2], Head(d), uid)>>
         \o EdgesOfPairs(Tail(ps), Tail(d), uid + 1)

\* the orders in which a hash set of pairs may be iterated
Orders(ps) ==
    { s \in [1..Cardinality(ps) -> ps] : \A i, j \in DOMAIN s : i # j => s[i] # s[j] }

CreateEdges ==
    /\ pc = "make"
    /\ mk.i = mk.num_edges
    /\ \E order \in Orders(pairs), d \in [1..Cardinality(pairs) -> EdgeDraws] :
          edges' = EdgesOfPairs(order, d, edge_seq)
    /\ edge_seq' = edge_seq + Cardinality(pairs)
    /\ mk' = [mk EXCEPT !.tries = 0]
    /\ pc' = "idle"
    /\ UNCHANGED <<sp, nodes, node_temp_charges, node_last_fired, pairs,
                   op_counter, edges_added_counter, gr>>

(***************************************************************************)
(* step(verbose): propagate over the edges, then consume, decay,           *)
(* assimilate and cool down every node, then penalise and prune the        *)
(* edges.  The work items of each parallel pass are applied in index order.*)
(***************************************************************************)
\* the pulse an edge carries, from its start node's charge
PulseValue(e) ==
    LET s == nodes[e.start_node] IN
    IF s.charge >= s.threshold
    THEN FAdd(FMul(s.charge, e.out_percentage), e.out_fixed)
    ELSE 0

\* pulse(edge) on the k-th edge; st carries the temporary charges, the
\* last-fired marks, the edges and the number of calls that returned true
pulse(st, k) ==
    LET e == st.edges[k]
        start_node == nodes[e.start_node]
        end_node == nodes[e.end_node]
        p == PulseValue(e)
    IN
    IF start_node.cooldown_remaining > 0 THEN st
    ELSE IF p > 0
    THEN LET t1 == [st.temp EXCEPT ![start_node.id - 1] = FAdd(@, p)]
             t2 == [t1 EXCEPT ![end_node.id - 1] = FAdd(@, p)]
             f1 == [st.last_fired EXCEPT ![start_node.id - 1] = 0]
             f2 == [f1 EXCEPT ![end_node.id - 1] = 0]
         IN [temp |-> t2, last_fired |-> f2,
             edges |-> [st.edges EXCEPT ![k].last_fire = 0],
             count |-> st.count + 1]
    ELSE [st EXCEPT !.edges[k].last_fire = e.last_fire + 1]

RECURSIVE PulseFrom(_, _)
PulseFrom(st, k) ==
    IF k > Len(st.edges) THEN st ELSE PulseFrom(pulse(st, k), k + 1)

\* PulseAll with the sum started at 1
PulseAllFromOne ==
    PulseFrom([temp |-> node_temp_charges, last_fired |-> node_last_fired,
               edges |-> edges, count |-> 1], 1)

\* the first parallel pass of step
PulseAll ==
    PulseFrom([temp |-> node_temp_charges, last_fired |-> node_last_fired,
               edges |-> edges, count |-> 0], 1)

subtract_charge(node) ==
    IF node.cooldown_remaining <= 0 /\ node.charge >= node.threshold
    THEN [node EXCEPT !.charge =
              FSub(FSub(node.charge,
                        FMul(node.charge, node.charge_consumption_percentage)),
                   node.charge_consumption_fixed)]
    ELSE node

decay(node) ==
    [node EXCEPT !.charge =
         FSub(FSub(node.charge, FMul(node.charge, node.decay_percentage)),
              node.decay_fixed)]

\* assimilate(node): the node's new record; its temporary charge becomes 0
assimilate(node, temp) ==
    [node EXCEPT !.charge = FAdd(temp[node.id - 1], node.charge)]

cooldown_step(node) ==
    IF node.cooldown_remaining > 0
    THEN [node EXCEPT !.cooldown_remaining = node.cooldown_remaining - 1]
    ELSE node

\* assimilate without the reset of the temporary charge
TempKept(temp, node) == temp

\* assimilate(node): what it leaves in node_temp_charges
TempDrained(temp, node) == [temp EXCEPT ![node.id - 1] = 0]

\* node_temp_charges once assimilate has run on the nodes 0 .. n-1
RECURSIVE TempAfterAssimilate(_, _)
TempAfterAssimilate(temp, n) ==
    IF n = 0 THEN temp
    ELSE TempDrained(TempAfterAssimilate(temp, n - 1), nodes[n - 1])

\* NodePass with decay moved after assimilate
NodePassDecayLate(node, temp) ==
    cooldown_step(decay(assimilate(subtract_charge(node), temp)))

\* the second parallel pass of step, on one node
NodePass(node, temp) ==
    cooldown_step(assimilate(decay(subtract_charge(node)), temp))

penalise(edge, ns) ==
    LET h1 == IF ns[edge.end_node].since_last_fire = edge.end_node_fire_within
              THEN Max(edge.edge_health, 1) - 1
              ELSE edge.edge_health
        h2 == IF edge.last_fire % edge.fire_within = edge.fire_within - 1
              THEN Max(h1, 1) - 1
              ELSE h1
    IN [edge EXCEPT !.edge_health = h2]

\* self.pairs.retain(..): the test a pair must pass to stay
PairStays(pair, ns) ==
    /\ ns[pair[1]].cooldown_remaining <= 0
    /\ ns[pair[2]].cooldown_remaining <= 0

\* EdgeStays with the comparison off by one
EdgeStaysAtZero(edge) == edge.edge_health >= 0

\* self.edges.retain(..): the test an edge must pass to stay
EdgeStays(edge) == edge.edge_health > 0

ChargesInRange == \A n \in DOMAIN nodes :
                      /\ nodes[n].charge <= MaxCharge
                      /\ nodes[n].charge >= -MaxCharge

\* what step leaves when the work items of each pass run in index order
StepResult ==
    LET st == PulseAll
        ns == [n \in DOMAIN nodes |-> NodePass(nodes[n], st.temp)]
        es == [k \in DOMAIN st.edges |-> penalise(st.edges[k], ns)]
    IN [nodes |-> ns,
        node_temp_charges |-> TempAfterAssimilate(st.temp, NumNodes),
        node_last_fired |-> st.last_fired,
        pairs |-> {pair \in pairs : PairStays(pair, ns)},
        edges |-> SelectSeq(es, EdgeStays),
        op_counter |-> op_counter + st.count]

Step ==
    /\ pc = "idle"
    /\ op_counter < MaxOps
    /\ ChargesInRange
    /\ LET r == StepResult
       IN /\ nodes' = r.nodes
          /\ node_temp_charges' = r.node_temp_charges
          /\ node_last_fired' = r.node_last_fired
          /\ pairs' = r.pairs
          /\ edges' = r.edges
          /\ op_counter' = r.op_counter
    /\ UNCHANGED <<sp, pc, edges_added_counter, mk, gr, edge_seq>>

(***************************************************************************)
(* inject_node_index(index, input).  An index past the end of nodes makes  *)
(* the indexing panic, which ends the program with the state as it was.    *)
(* The calls made are on the first node and on one index past the end.     *)
(***************************************************************************)
InjectAmounts == {3 * Unit}

\* Inject adding the input to every node
InjectAll(index, input) ==
    /\ pc = "idle"
    /\ IF index \in DOMAIN nodes
       THEN /\ \A n \in DOMAIN nodes : nodes[n].charge + input <= MaxCharge
            /\ nodes' = [n \in DOMAIN nodes |->
                             [nodes[n] EXCEPT !.charge = FAdd(@, input)]]
            /\ pc' = pc
       ELSE /\ nodes' = nodes
            /\ pc' = "panic"
    /\ UNCHANGED <<sp, edges, node_temp_charges, node_last_fired, pairs,
                   op_counter, edges_added_counter, mk, gr, edge_seq>>

Inject(index, input) ==
    /\ pc = "idle"
    /\ IF index \in DOMAIN nodes
       THEN /\ nodes[index].charge + input <= MaxCharge
            /\ nodes' = [nodes EXCEPT ![index].charge = FAdd(@, input)]
            /\ pc' = pc
       ELSE /\ nodes' = nodes
            /\ pc' = "panic"
    /\ UNCHANGED <<sp, edges, node_temp_charges, node_last_fired, pairs,
                   op_counter, edges_added_counter, mk, gr, edge_seq>>

(***************************************************************************)
(* add_edges_to_random_node(num_edges, max_tries).  GrowCall is the code   *)
(* up to the 'main loop, GrowIter one pass of the loop and GrowReturn the  *)
(* exit once tries has reached max_tries.  gr holds the call's arguments   *)
(* and locals and is dropped on return.                                    *)
(***************************************************************************)
\* the tally of outgoing edges per node
ArrCount(es) ==
    [i \in DOMAIN nodes |->
        Cardinality({k \in DOMAIN es : nodes[es[k].start_node].id - 1 = i})]

\* 0, 1, .., n-1 as a sequence
Indices(n) == [k \in 1..n |-> k - 1]

\* the nodes that can have edges added, in index order
AvailableNodes(arr_count) ==
    LET Free(i) == arr_count[i] < NumNodes - 1
    IN SelectSeq(Indices(NumNodes), Free)

\* the nodes the pass takes as not yet connected to the target, in index order
UnconnectedNodes(target_node_index, ps) ==
    LET Absent(i) == <<target_node_index, i + 1>> \notin ps
    IN SelectSeq(Indices(NumNodes), Absent)

\* the number of edges one pass adds
EdgesToAdd(num_edges, unconnected_nodes) ==
    Min(num_edges, Len(unconnected_nodes))

\* Tried without the increment
TriedNotCounted(g) == g

\* tries += 1
Tried(g) == [g EXCEPT !.tries = g.tries + 1]

GrowCall(num_edges, max_tries) ==
    /\ pc = "idle"
    /\ edges_added_counter < MaxAdded
    /\ LET arr_count == ArrCount(edges)
           available_nodes == AvailableNodes(arr_count)
       IN IF Len(available_nodes) = 0
          THEN /\ pc' = "idle"
               /\ gr' = NoGrow
          ELSE /\ pc' = "grow"
               /\ gr' = [num_edges |-> num_edges, max_tries |-> max_tries,
                         tries |-> 0, prior_total_edges |-> Len(edges),
                         arr_count |-> arr_count,
                         available_nodes |-> available_nodes]
    /\ UNCHANGED <<sp, nodes, edges, node_temp_charges, node_last_fired, pairs,
                   op_counter, edges_added_counter, mk, edge_seq>>

GrowIter(pick, d) ==
    /\ pc = "grow"
    /\ gr.tries < gr.max_tries
    /\ pick \in 1..Len(gr.available_nodes)
    /\ LET target_node_index == gr.available_nodes[pick]
           unconnected_nodes == UnconnectedNodes(target_node_index, pairs)
           edges_to_add == EdgesToAdd(gr.num_edges, unconnected_nodes)
           new_edges == [i \in 1..edges_to_add |->
                            default_edge(target_node_index, unconnected_nodes[i],
                                         d[i], edge_seq + i - 1)]
           new_pairs == {<<target_node_index, unconnected_nodes[i]>> :
                            i \in 1..edges_to_add}
       IN /\ d \in [1..edges_to_add -> EdgeDraws]
          /\ IF edges_to_add = 0
             THEN /\ gr' = Tried(gr)
                  /\ pc' = "grow"
                  /\ UNCHANGED <<edges, pairs, edges_added_counter, edge_seq>>
             ELSE /\ edges' = edges \o new_edges
                  /\ pairs' = pairs \cup new_pairs
                  /\ edges_added_counter' = edges_added_counter + edges_to_add
                  /\ edge_seq' = edge_seq + edges_to_add
                  /\ IF Len(edges') = gr.prior_total_edges
                     THEN /\ gr' = Tried(gr)
                          /\ pc' = "grow"
                     ELSE /\ gr' = NoGrow
                          /\ pc' = "idle"
    /\ UNCHANGED <<sp, nodes, node_temp_charges, node_last_fired, op_counter, mk>>

GrowReturn ==
    /\ pc = "grow"
    /\ ~(gr.tries < gr.max_tries)
    /\ pc' = "idle"
    /\ gr' = NoGrow
    /\ UNCHANGED <<sp, nodes, edges, node_temp_charges, node_last_fired, pairs,
                   op_counter, edges_added_counter, mk, edge_seq>>

\* the sequences of edge draws one pass may use
DrawSeqs == UNION {[1..k -> EdgeDraws] : k \in 0..MaxGrowArg}

Next ==
    \/ \E a, b \in DOMAIN nodes : DrawPair(a, b)
    \/ CreateEdges
    \/ Step
    \/ \E index \in {0, NumNodes}, input \in InjectAmounts : Inject(index, input)
    \/ \E num_edges, max_tries \in 0..MaxGrowArg : GrowCall(num_edges, max_tries)
    \/ \E pick \in 1..NumNodes, d \in DrawSeqs : GrowIter(pick, d)
    \/ GrowReturn

Spec == Init /\ [][Next]_vars

\* the loop of add_edges_to_random_node keeps running until it exits
GrowStep ==
    \/ \E pick \in 1..NumNodes, d \in DrawSeqs : GrowIter(pick, d)
    \/ GrowReturn

FairSpec == Init /\ [][Next]_vars /\ WF_vars(GrowStep)

\* make_random_web(2..3, 0..MaxBootEdges) alone
InitBoot == MakeInit(2..3, 0..MaxBootEdges, {HotDraw})

NextBoot ==
    \/ \E a, b \in DOMAIN nodes : DrawPair(a, b)
    \/ CreateEdges

SpecBoot == InitBoot /\ [][NextBoot]_vars

\* make_random_web(2, 0..MaxEdgesArg) with decaying nodes, then step only
InitDecay == MakeInit({2}, 0..MaxEdgesArg, {HotDraw, LeakyDraw, DampDraw})

NextDecay ==
    \/ \E a, b \in DOMAIN nodes : DrawPair(a, b)
    \/ CreateEdges
    \/ Step

SpecDecay == InitDecay /\ [][NextDecay]_vars

(***************************************************************************)
(* step with its parallel passes taken apart.  Each pass hands one work    *)
(* item per edge or node to the thread pool; an item runs its code one     *)
(* lock operation at a time, and the items of a pass interleave in any     *)
(* order.  A pass ends when all its items are done.  sp.at is each item's  *)
(* position, sp.loc its locals, sp.held the locks held, as                 *)
(* <<item, lock, mode>>.                                                   *)
(***************************************************************************)
\* a node that fires on every edge it starts
SourceDraw ==
    [threshold |-> Unit, charge |-> 4 * Unit, cooldown |-> 1,
     charge_consumption_percentage |-> Unit, charge_consumption_fixed |-> 0,
     decay_percentage |-> 0, decay_fixed |-> 0]

\* a strong edge and a weak edge
LoudDraw == [out_percentage |-> Unit - 1, out_fixed |-> (9 * Unit) \div 2]
FaintDraw == [out_percentage |-> 0, out_fixed |-> 1]
ParEdgeDraws == {LoudDraw, FaintDraw}

\* the pairs make_random_web(4, 3) has drawn, in the order it builds the
\* edges in: three edges out of node 0, or two out of it and one into it
ParWebs ==
    { << <<0, 1>>, <<0, 2>>, <<0, 3>> >>,
      << <<0, 1>>, <<2, 0>>, <<0, 3>> >> }

\* the pairs make_random_web(3, 2) has drawn: two edges out of node 0
SmallWebs == { << <<0, 1>>, <<0, 2>> >> }

\* the web as make_random_web(num_nodes, Len(order)) returns it, for the
\* pairs of one of webs
MadeWeb(num_nodes, webs) ==
    \E order \in webs :
    \E d \in [1..Len(order) -> ParEdgeDraws] :
        /\ pc = "idle"
        /\ nodes = [n \in 0..num_nodes - 1 |->
                       Node(n, IF n = 0 THEN SourceDraw ELSE ColdDraw)]
        /\ edges = EdgesOfPairs(order, d, 0)
        /\ node_temp_charges = [n \in 0..num_nodes - 1 |-> 0]
        /\ node_last_fired = [n \in 0..num_nodes - 1 |-> 0]
        /\ pairs = {order[k] : k \in 1..Len(order)}
        /\ op_counter = 0
        /\ edges_added_counter = 0
        /\ mk = [num_edges |-> Len(order), tries |-> 0, i |-> Len(order)]
        /\ gr = NoGrow
        /\ edge_seq = Len(order)
        /\ sp = NoStep

InitPar == MadeWeb(4, ParWebs)

EdgeLock(k) == <<"edge", k>>
NodeLock(n) == <<"node", n>>
TempLock(n) == <<"temp", n>>
FiredLock(n) == <<"fired", n>>

\* RwLock::read and RwLock::write return once the lock can be taken
CanRead(lock) == \A h \in sp.held : h[2] = lock => h[3] = "r"
CanWrite(lock) == \A h \in sp.held : h[2] # lock

\* Poisoned with every lock poisoned
PoisonedAlways(lock) == TRUE

\* read() returns Err for a lock whose writer panicked; no writer does
Poisoned(lock) == FALSE

\* the guards an item drops at the end of a block
Released(held, item) == {h \in held : h[1] # item}

\* the items of the running pass that have not finished
Running == {i \in DOMAIN sp.at : sp.at[i] # "done"}

\* step is entered: the first pass starts with one item per edge
StepBegin ==
    /\ pc = "idle"
    /\ op_counter < MaxOps
    /\ pc' = "step"
    /\ sp' = [phase |-> "pulse",
              at |-> [k \in DOMAIN edges |-> "read_edge"],
              loc |-> [k \in DOMAIN edges |->
                          [pulse |-> 0, last_fire |-> 0, result |-> 0,
                           side |-> "start"]],
              held |-> {},
              count |-> 0,
              expect |-> StepResult]
    /\ UNCHANGED <<nodes, edges, node_temp_charges, node_last_fired, pairs,
                   op_counter, edges_added_counter, mk, gr, edge_seq>>

\* one lock operation of pulse(edge) on the k-th edge
PulseItem(k) ==
    /\ pc = "step"
    /\ sp.phase = "pulse"
    /\ k \in Running
    /\ LET e == edges[k]
           at == sp.at[k]
           loc == sp.loc[k]
           n == IF loc.side = "start" THEN e.start_node ELSE e.end_node
           Go(label) == [sp EXCEPT !.at[k] = label]
           Take(lock, mode, label) ==
               [sp EXCEPT !.at[k] = label,
                          !.held = @ \cup {<<k, lock, mode>>}]
           Drop(label) ==
               [sp EXCEPT !.at[k] = label, !.held = Released(@, k)]
       IN
       \/ /\ at = "read_edge"
          /\ CanRead(EdgeLock(k))
          /\ sp' = Take(EdgeLock(k), "r", "read_start")
          /\ UNCHANGED <<edges, node_temp_charges, node_last_fired>>
       \/ /\ at = "read_start"
          /\ CanRead(NodeLock(e.start_node))
          /\ sp' = IF nodes[e.start_node].cooldown_remaining > 0
                   THEN Drop("done")
                   ELSE Take(NodeLock(e.start_node), "r", "read_end")
          /\ UNCHANGED <<edges, node_temp_charges, node_last_fired>>
       \/ /\ at = "read_end"
          /\ CanRead(NodeLock(e.end_node))
          /\ LET pulse_value == PulseValue(e)
             IN sp' = [sp EXCEPT
                          !.at[k] = IF pulse_value > 0 THEN "lock_edge"
                                    ELSE "silent",
                          !.loc[k] = [loc EXCEPT !.pulse = pulse_value,
                                                 !.last_fire = e.last_fire],
                          !.held = Released(@, k)]
          /\ UNCHANGED <<edges, node_temp_charges, node_last_fired>>
       \/ /\ at = "lock_edge"
          /\ CanRead(EdgeLock(k))
          /\ sp' = Take(EdgeLock(k), "r", "lock_node")
          /\ UNCHANGED <<edges, node_temp_charges, node_last_fired>>
       \/ /\ at = "lock_node"
          /\ CanRead(NodeLock(n))
          /\ sp' = IF Poisoned(NodeLock(n))
                   THEN Drop("lock_edge")
                   ELSE Take(NodeLock(n), "r", "lock_temp")
          /\ UNCHANGED <<edges, node_temp_charges, node_last_fired>>
       \/ /\ at = "lock_temp"
          /\ CanWrite(TempLock(nodes[n].id - 1))
          /\ sp' = Take(TempLock(nodes[n].id - 1), "w", "add")
          /\ UNCHANGED <<edges, node_temp_charges, node_last_fired>>
       \/ /\ at = "add"
          /\ node_temp_charges' =
                 [node_temp_charges EXCEPT
                     ![nodes[n].id - 1] = FAdd(@, loc.pulse)]
          /\ sp' = [sp EXCEPT
                       !.at[k] = "fired",
                       !.held = @ \ {<<k, TempLock(nodes[n].id - 1), "w">>}]
          /\ UNCHANGED <<edges, node_last_fired>>
       \/ /\ at = "fired"
          /\ CanWrite(FiredLock(nodes[n].id - 1))
          /\ node_last_fired' =
                 [node_last_fired EXCEPT ![nodes[n].id - 1] = 0]
          /\ sp' = [sp EXCEPT
                       !.at[k] = IF loc.side = "start" THEN "lock_edge"
                                 ELSE "reset",
                       !.loc[k].side = "end",
                       !.held = Released(@, k)]
          /\ UNCHANGED <<edges, node_temp_charges>>
       \/ /\ at = "reset"
          /\ CanWrite(EdgeLock(k))
          /\ edges' = [edges EXCEPT ![k].last_fire = 0]
          /\ sp' = [sp EXCEPT !.at[k] = "done", !.loc[k].result = 1]
          /\ UNCHANGED <<node_temp_charges, node_last_fired>>
       \/ /\ at = "silent"
          /\ CanWrite(EdgeLock(k))
          /\ edges' = [edges EXCEPT ![k].last_fire = loc.last_fire + 1]
          /\ sp' = Go("done")
          /\ UNCHANGED <<node_temp_charges, node_last_fired>>
    /\ UNCHANGED <<pc, nodes, pairs, op_counter, edges_added_counter, mk, gr,
                   edge_seq>>

\* the sum of the results of the first k items
RECURSIVE SumResults(_, _)
SumResults(loc, k) ==
    IF k = 0 THEN 0 ELSE SumResults(loc, k - 1) + loc[k].result

\* the first pass is over: its results are summed and the pass over the
\* nodes starts
PulseJoin ==
    /\ pc = "step"
    /\ sp.phase = "pulse"
    /\ Running = {}
    /\ sp' = [sp EXCEPT !.phase = "node",
                        !.at = [n \in DOMAIN nodes |-> "subtract"],
                        !.loc = [n \in DOMAIN nodes |-> <<>>],
                        !.count = SumResults(sp.loc, Len(edges))]
    /\ UNCHANGED <<pc, nodes, edges, node_temp_charges, node_last_fired,
                   pairs, op_counter, edges_added_counter, mk, gr, edge_seq>>

\* one lock operation of the closure of the second pass on node n
NodeItem(n) ==
    /\ pc = "step"
    /\ sp.phase = "node"
    /\ n \in Running
    /\ LET at == sp.at[n]
           node == nodes[n]
           Go(label) == [sp EXCEPT !.at[n] = label]
       IN
       \/ /\ at = "subtract"
          /\ CanWrite(NodeLock(n))
          /\ nodes' = [nodes EXCEPT ![n] = subtract_charge(node)]
          /\ sp' = Go("decay")
          /\ UNCHANGED node_temp_charges
       \/ /\ at = "decay"
          /\ CanWrite(NodeLock(n))
          /\ nodes' = [nodes EXCEPT ![n] = decay(node)]
          /\ sp' = Go("assimilate")
          /\ UNCHANGED node_temp_charges
       \/ /\ at = "assimilate"
          /\ CanWrite(NodeLock(n))
          /\ sp' = [sp EXCEPT !.at[n] = "read_temp",
                              !.held = @ \cup {<<n, NodeLock(n), "w">>}]
          /\ UNCHANGED <<nodes, node_temp_charges>>
       \/ /\ at = "read_temp"
          /\ CanRead(TempLock(node.id - 1))
          /\ nodes' = [nodes EXCEPT ![n] = assimilate(node, node_temp_charges)]
          /\ sp' = Go("clear_temp")
          /\ UNCHANGED node_temp_charges
       \/ /\ at = "clear_temp"
          /\ CanWrite(TempLock(node.id - 1))
          /\ node_temp_charges' = TempDrained(node_temp_charges, node)
          /\ sp' = [sp EXCEPT !.at[n] = "cooldown",
                              !.held = Released(@, n)]
          /\ UNCHANGED nodes
       \/ /\ at = "cooldown"
          /\ CanWrite(NodeLock(n))
          /\ nodes' = [nodes EXCEPT ![n] = cooldown_step(node)]
          /\ sp' = Go("done")
          /\ UNCHANGED node_temp_charges
    /\ UNCHANGED <<pc, edges, node_last_fired, pairs, op_counter,
                   edges_added_counter, mk, gr, edge_seq>>

\* the second pass is over: the pass that penalises the edges starts
NodeJoin ==
    /\ pc = "step"
    /\ sp.phase = "node"
    /\ Running = {}
    /\ sp' = [sp EXCEPT !.phase = "edge",
                        !.at = [k \in DOMAIN edges |-> "penalise"],
                        !.loc = [k \in DOMAIN edges |-> <<>>]]
    /\ UNCHANGED <<pc, nodes, edges, node_temp_charges, node_last_fired,
                   pairs, op_counter, edges_added_counter, mk, gr, edge_seq>>

\* one lock operation of penalise(edge) on the k-th edge
PenaliseItem(k) ==
    /\ pc = "step"
    /\ sp.phase = "edge"
    /\ k \in Running
    /\ \/ /\ sp.at[k] = "penalise"
          /\ CanWrite(EdgeLock(k))
          /\ sp' = [sp EXCEPT !.at[k] = "read_end",
                              !.held = @ \cup {<<k, EdgeLock(k), "w">>}]
          /\ UNCHANGED edges
       \/ /\ sp.at[k] = "read_end"
          /\ CanRead(NodeLock(edges[k].end_node))
          /\ edges' = [edges EXCEPT ![k] = penalise(edges[k], nodes)]
          /\ sp' = [sp EXCEPT !.at[k] = "done", !.held = Released(@, k)]
    /\ UNCHANGED <<pc, nodes, node_temp_charges, node_last_fired, pairs,
                   op_counter, edges_added_counter, mk, gr, edge_seq>>

\* the third pass is over: the rest of step runs on the calling thread
StepEnd ==
    /\ pc = "step"
    /\ sp.phase = "edge"
    /\ Running = {}
    /\ pairs' = {pair \in pairs : PairStays(pair, nodes)}
    /\ edges' = SelectSeq(edges, EdgeStays)
    /\ op_counter' = op_counter + sp.count
    /\ pc' = "idle"
    /\ sp' = [NoStep EXCEPT !.phase = "after", !.expect = sp.expect]
    /\ UNCHANGED <<nodes, node_temp_charges, node_last_fired,
                   edges_added_counter, mk, gr, edge_seq>>

\* a step of one of the work items of the running pass
ItemStep ==
    \/ \E k \in DOMAIN edges : PulseItem(k)
    \/ \E n \in DOMAIN nodes : NodeItem(n)
    \/ \E k \in DOMAIN edges : PenaliseItem(k)

NextPar ==
    \/ StepBegin
    \/ ItemStep
    \/ PulseJoin
    \/ NodeJoin
    \/ StepEnd

SpecPar == InitPar /\ [][NextPar]_vars

\* a step of the step call that is running
StepRun ==
    \/ ItemStep
    \/ PulseJoin
    \/ NodeJoin
    \/ StepEnd

\* a step call that can go on does go on: the thread pool runs some item
\* of the pass, or the calling thread goes on once the pass is over
FairPar == MadeWeb(3, SmallWebs) /\ [][NextPar]_vars /\ WF_vars(StepRun)

(***************************************************************************)
(* Properties.                                                             *)
(***************************************************************************)
\* the unordered pair of nodes an edge connects
Ends(e) == {e.start_node, e.end_node}

\* the number of live edges that start at node i
OutDegree(i) == Cardinality({k \in DOMAIN edges : edges[k].start_node = i})

\* every unordered pair of distinct nodes is connected by a live edge
FullyConnected ==
    \A a, b \in DOMAIN nodes :
        a # b => \E k \in DOMAIN edges : Ends(edges[k]) = {a, b}

\* the edge of edges that is the same allocation as e, if it is still live
SameEdge(e, k) == edges[k].uid = e.uid

\* C1: in every reachable state no two live edges connect the same
\* unordered pair of nodes and no live edge starts and ends at one node.
C1_PairUniqueness ==
    /\ \A j, k \in DOMAIN edges : j # k => Ends(edges[j]) # Ends(edges[k])
    /\ \A k \in DOMAIN edges : edges[k].start_node # edges[k].end_node

\* C2: at every tick boundary every live edge has its pair in the Pair
\* Index in exactly one orientation, and every pair of the index is backed
\* by a live edge.
C2_IndexAgreesWithEdges ==
    pc = "idle" =>
        /\ \A k \in DOMAIN edges :
              LET ab == <<edges[k].start_node, edges[k].end_node>>
                  ba == <<edges[k].end_node, edges[k].start_node>>
              IN /\ ab \in pairs \/ ba \in pairs
                 /\ ab # ba => ~(ab \in pairs /\ ba \in pairs)
        /\ \A pair \in pairs :
              \E k \in DOMAIN edges : Ends(edges[k]) = {pair[1], pair[2]}

\* C3: no step of the program raises an edge's edge_health or lowers it by
\* more than 2, penalise never takes it below 0, and no live edge has
\* edge_health 0 once the step that penalised it has returned.
C3_HealthMonotone ==
    /\ [][\A k2 \in DOMAIN edges' :
             /\ edges'[k2].edge_health > 0
             /\ \A k \in DOMAIN edges :
                   SameEdge(edges'[k2], k) =>
                       /\ edges'[k2].edge_health <= edges[k].edge_health
                       /\ edges'[k2].edge_health >= edges[k].edge_health - 2]_vars
    /\ [](\A k \in DOMAIN edges :
             LET st == PulseAll
                 ns == [n \in DOMAIN nodes |-> NodePass(nodes[n], st.temp)]
                 h == penalise(st.edges[k], ns).edge_health
             IN h >= 0 /\ h <= edges[k].edge_health)

\* C3 witness: a step has pruned an edge and another live edge has lost health.
C3_Witness ==
    /\ pc = "idle"
    /\ edge_seq > Len(edges)
    /\ \E k \in DOMAIN edges : edges[k].edge_health < DefaultEdgeHealth

\* C4: a pass of add_edges_to_random_node on a fully connected graph
\* changes neither the edges, nor the Pair Index, nor the edges-added counter.
C4_SaturatedGrowIsNoOp ==
    [][(pc = "grow" /\ FullyConnected) =>
          UNCHANGED <<edges, pairs, edges_added_counter>>]_vars

\* no node's out-degree exceeds node_count - 1
DegreeCapHolds == \A i \in DOMAIN nodes : OutDegree(i) <= NumNodes - 1

\* C5: a pass of add_edges_to_random_node on a graph that satisfies the
\* degree cap leaves a graph that satisfies it.
C5_GrowKeepsDegreeCap ==
    [][(pc = "grow" /\ DegreeCapHolds) => DegreeCapHolds']_vars
\* C6: add_edges_to_random_node never makes more than max_tries
\* unsuccessful passes, ends with the first pass that adds edges, adds at
\* most num_edges edges, adds none when num_edges or max_tries is 0, and
\* always returns.
C6_GrowTerminates ==
    /\ [](pc = "grow" => gr.tries <= gr.max_tries)
    /\ [][pc = "grow" =>
             /\ Len(edges') - gr.prior_total_edges <= gr.num_edges
             /\ edges' # edges => pc' = "idle"
             /\ (gr.num_edges = 0 \/ gr.max_tries = 0) => edges' = edges]_vars
    /\ (pc = "grow" ~> pc = "idle")

\* C6 witness: a call has used up a retry budget of more than one pass.
C6_Witness ==
    /\ pc = "grow"
    /\ gr.max_tries > 1
    /\ gr.tries = gr.max_tries

\* the pair an edge was built from
PairOf(e) == <<e.start_node, e.end_node>>

\* C7: when make_random_web returns because its retry budget ran out, the
\* graph has one live edge per pair recorded in the Pair Index.
C7_ExhaustedKeepsFoundEdges ==
    (pc = "idle" /\ mk.i < mk.num_edges) =>
        /\ Len(edges) = Cardinality(pairs)
        /\ \A pair \in pairs : \E k \in DOMAIN edges : PairOf(edges[k]) = pair

\* the number of unordered pairs of distinct nodes
MaxPairs == (NumNodes * (NumNodes - 1)) \div 2

\* C8: make_random_web(node_count, edge_count) returns a graph with at most
\* min(edge_count, node_count * (node_count - 1) / 2) edges.
C8_EdgeCountBounded ==
    pc = "idle" => Len(edges) <= Min(mk.num_edges, MaxPairs)

\* C8 witness: more edges were asked for than there are unordered pairs,
\* and every unordered pair was found.
C8_Witness ==
    /\ pc = "idle"
    /\ mk.num_edges > MaxPairs
    /\ Cardinality(pairs) = MaxPairs

\* edge e carries a pulse > 0 in the propagate phase of the next step
Fires(e) ==
    /\ nodes[e.start_node].cooldown_remaining = 0
    /\ PulseValue(e) > 0

\* C9: a step in which an edge carries a pulse > 0 sets the start node's
\* cooldown_remaining to its cooldown in the propagate phase, so that it is
\* cooldown - 1 after the cooldown phase of that step.
C9_FiringStartsCooldown ==
    [][Step =>
          \A k \in DOMAIN edges :
              Fires(edges[k]) =>
                  nodes'[edges[k].start_node].cooldown_remaining
                      = nodes[edges[k].start_node].cooldown - 1]_vars

\* no node is ever on cooldown
NeverOnCooldown == \A n \in DOMAIN nodes : nodes[n].cooldown_remaining = 0

\* the live edges that carry a pulse > 0 in the next step
FiringEdges == {k \in DOMAIN edges : Fires(edges[k])}

C12_InjectFrame ==
    [][\A index \in {0, NumNodes}, input \in InjectAmounts :
          Inject(index, input) =>
              /\ UNCHANGED <<edges, node_temp_charges, node_last_fired,
                             pairs, op_counter, edges_added_counter>>
              /\ DOMAIN nodes' = DOMAIN nodes
              /\ \A n \in DOMAIN nodes :
                    IF n = index
                    THEN nodes'[n] = [nodes[n] EXCEPT
                                         !.charge = FAdd(nodes[n].charge, input)]
                    ELSE nodes'[n] = nodes[n]
              /\ index \notin DOMAIN nodes => pc' = "panic"]_vars

\* C12 witness: on a graph that never had an edge and whose first node
\* started below its threshold, a call in range has raised that node's
\* charge to the input and a call out of range has then failed.
C12_Witness ==
    /\ pc = "panic"
    /\ edge_seq = 0
    /\ \E input \in InjectAmounts : nodes[0].charge = input
    /\ nodes[0].threshold > nodes[0].charge - 1

\* the sum of the pulses of the first k live edges that end at node n
RECURSIVE IncomingPulses(_, _)
IncomingPulses(n, k) ==
    IF k = 0 THEN 0
    ELSE FAdd(IncomingPulses(n, k - 1),
              IF edges[k].end_node = n /\ Fires(edges[k])
              THEN PulseValue(edges[k]) ELSE 0)

\* C13: after the propagate phase of a step every node's temporary charge
\* is the sum of the pulses of the live edges that end at it; a firing
\* edge adds nothing to the temporary charge of its start node.
C13_TempChargeIsIncoming ==
    pc = "idle" =>
        \A n \in DOMAIN nodes :
            PulseAll.temp[n] = IncomingPulses(n, Len(edges))

C15_TempChargeZero ==
    /\ [](\A n \in DOMAIN nodes : node_temp_charges[n] = 0)
    /\ [][~Step => UNCHANGED node_temp_charges]_vars

\* C15 witness: a step has given both nodes a pulse and drained it into
\* their charges.
C15_Witness ==
    /\ pc = "idle"
    /\ op_counter > 0
    /\ \A n \in DOMAIN nodes :
          /\ nodes[n].charge > HotDraw.charge
          /\ node_temp_charges[n] = 0

\* the propagate phase leaves each live edge's last_fire at 0 if the edge
\* carried a pulse > 0 and at its previous value plus 1 otherwise
LastFireAfterPropagate ==
    \A k \in DOMAIN edges :
        PulseAll.edges[k].last_fire
            = IF Fires(edges[k]) THEN 0 ELSE edges[k].last_fire + 1

\* C17: a step lowers an edge's edge_health for staleness exactly when the
\* edge has, with this step, completed a whole number of windows of
\* fire_within consecutive steps without a pulse > 0; with the defaults an
\* edge that never fires is first penalised in its 5th silent step.  The
\* steps in which the destination node's test applies are left aside.
C17_PenaltyAfterFullWindow ==
    [][Step =>
          LET st == PulseAll
              ns == [n \in DOMAIN nodes |-> NodePass(nodes[n], st.temp)]
          IN \A k \in DOMAIN edges :
                 LET e == st.edges[k]
                     silent == IF Fires(edges[k]) THEN 0
                               ELSE edges[k].last_fire + 1
                     penalised == penalise(e, ns).edge_health
                                      < edges[k].edge_health
                 IN ns[e.end_node].since_last_fire # e.end_node_fire_within
                        => (penalised <=>
                               (silent > 0 /\ silent % e.fire_within = 0))]_vars

\* node n fires in the next step: it is off cooldown with its charge at or
\* above its threshold
NodeFires(n) ==
    /\ nodes[n].cooldown_remaining = 0
    /\ nodes[n].charge >= nodes[n].threshold

\* C18: a step sets a node's since_last_fire to 0 if the node fires in it
\* and raises it by 1 otherwise, and lowers by 1 the edge_health of every
\* edge whose end node's since_last_fire has then reached
\* end_node_fire_within.
C18_SinceLastFireCounts ==
    [][Step =>
          /\ \A n \in DOMAIN nodes :
                nodes'[n].since_last_fire
                    = IF NodeFires(n) THEN 0
                      ELSE nodes[n].since_last_fire + 1
          /\ \A k \in DOMAIN edges :
                LET e == PulseAll.edges[k] IN
                nodes'[e.end_node].since_last_fire = e.end_node_fire_within
                    => penalise(e, nodes').edge_health
                           < Max(edges[k].edge_health, 1)]_vars

\* C19: whatever the order in which the work items of its passes ran, a
\* step leaves the node charges, temporary charges, last-fired marks,
\* edges (with their last_fire and edge_health), pairs and op_counter that
\* it leaves when the items run in index order.
C19_OrderIndependent ==
    (pc = "idle" /\ sp.phase = "after") =>
        /\ nodes = sp.expect.nodes
        /\ node_temp_charges = sp.expect.node_temp_charges
        /\ node_last_fired = sp.expect.node_last_fired
        /\ edges = sp.expect.edges
        /\ pairs = sp.expect.pairs
        /\ op_counter = sp.expect.op_counter

\* the node whose temporary charge item k of the propagate pass is about
\* to add to
TempTarget(k) ==
    IF sp.loc[k].side = "start" THEN edges[k].start_node
    ELSE edges[k].end_node

\* C20: every step that has begun returns, when the thread pool keeps
\* running the work items: at every point of a step some work item or the
\* calling thread can go on (no cyclic wait on a lock), and the retry
\* loops of the propagate pass are left.
C20_StepTerminates == pc = "step" ~> pc = "idle"

\* C20 witness: a work item of the propagate pass is waiting for the lock
\* of a temporary charge that another item holds.
C20_Witness ==
    /\ pc = "step"
    /\ sp.phase = "pulse"
    /\ \E i, j \in DOMAIN sp.at :
          /\ i # j
          /\ sp.at[i] = "lock_temp"
          /\ <<j, TempLock(nodes[TempTarget(i)].id - 1), "w">> \in sp.held
====
